---- MODULE Spec2Model ----
(***************************************************************************)
(* Model of src/src/App.jsx: the App component of the customer             *)
(* transactions dashboard.  State is the component's useState / useRef     *)
(* cells; one action per effect or event handler.  Amounts are integers,   *)
(* for which JavaScript's floating-point addition is exact.  Strings that  *)
(* the code parses (option values, the amount input) are sequences of      *)
(* one-character strings.                                                  *)
(***************************************************************************)
EXTENDS Integers, Sequences, FiniteSets

VARIABLES
  phase,                 \* position of the component / of getData
  customers,             \* useState, line 10
  transactions,          \* useState, line 11
  filteredTransactions,  \* useState, line 12
  selectedCustomer,      \* useState, line 13
  filterAmount,          \* useState, line 14
  chartInstanceRef,      \* useRef, line 16: NULL or the Chart object it holds
  liveCharts,            \* number of Chart objects created and not destroyed
  destroyedTwice,        \* destroy() was called on a destroyed Chart
  lastEvent              \* the effect or handler that ran last, with its argument

vars == <<phase, customers, transactions, filteredTransactions, selectedCustomer,
          filterAmount, chartInstanceRef, liveCharts, destroyedTwice, lastEvent>>

----------------------------------------------------------------------------
(* Bounds and input sets *)

MaxTx == 2

CustomerPool == {[id |-> 2, name |-> "A"], [id |-> 10, name |-> "B"]}
TxCustomerIds == {2, 10}
Dates == {"2024-01-01", "2024-01-02"}
Amounts == {1, 2}
AmountInputs == {<<>>, <<"1">>, <<"2">>, <<"1", ".", "5">>}

NULL == [null |-> TRUE]

\* Customer collections: every ordering of every subset of the pool (ids unique).
CustomerLists ==
  {c \in UNION {[1..n -> CustomerPool] : n \in 0..Cardinality(CustomerPool)} :
     \A i, j \in DOMAIN c : i # j => c[i].id # c[j].id}

\* Transaction collections: ids are unique (the position in the list).
TxLists ==
  {[i \in DOMAIN b |-> [id |-> i, customer_id |-> b[i].customer_id,
                        date |-> b[i].date, amount |-> b[i].amount]] :
     b \in UNION {[1..m -> [customer_id : TxCustomerIds, date : Dates, amount : Amounts]] :
                    m \in 0..MaxTx}}

\* What fetchData() may resolve to: a snapshot or null.
FetchResults ==
  {[customers |-> c, transactions |-> t] : c \in CustomerLists, t \in TxLists}
    \cup {NULL}

----------------------------------------------------------------------------
(* JavaScript helpers *)

Digits == <<"0", "1", "2", "3", "4", "5", "6", "7", "8", "9">>
IsDigit(ch) == \E i \in 1..10 : Digits[i] = ch
DigitVal(ch) == (CHOOSE i \in 1..10 : Digits[i] = ch) - 1

NaN == [nan |-> TRUE]
Num(n) == [nan |-> FALSE, value |-> n]

\* The value of the run of decimal digits of s that starts at position i.
RECURSIVE ParseDigits(_, _, _)
ParseDigits(s, i, acc) ==
  IF i > Len(s) \/ ~IsDigit(s[i]) THEN acc
  ELSE ParseDigits(s, i + 1, acc * 10 + DigitVal(s[i]))

\* parseInt(s): optional sign, then the leading digits; NaN when there are none.
parseInt(s) ==
  LET start == IF Len(s) > 0 /\ s[1] \in {"-", "+"} THEN 2 ELSE 1
      sign  == IF Len(s) > 0 /\ s[1] = "-" THEN -1 ELSE 1
  IN IF start > Len(s) \/ ~IsDigit(s[start]) THEN NaN
     ELSE Num(sign * ParseDigits(s, start, 0))

\* String(n) of a non-negative integer: the option value React renders for an id.
RECURSIVE ToString(_)
ToString(n) ==
  IF n < 10 THEN <<Digits[n + 1]>>
  ELSE ToString(n \div 10) \o <<Digits[(n % 10) + 1]>>

\* n === r and n >= r for a number n and a parseInt result r (false on NaN).
StrictEq(n, r) == ~r.nan /\ n = r.value
GreaterEq(n, r) == ~r.nan /\ n >= r.value

\* Array.prototype.filter; test[i] is the callback's result on s[i].
filter(s, test) ==
  LET RECURSIVE go(_)
      go(i) == IF i > Len(s) THEN <<>>
               ELSE (IF test[i] THEN <<s[i]>> ELSE <<>>) \o go(i + 1)
  IN go(1)

\* Array.prototype.find: the first match, or NULL (undefined).
find(s, test) ==
  IF \E i \in DOMAIN s : test[i]
  THEN s[CHOOSE i \in DOMAIN s : test[i] /\ \A j \in 1..(i - 1) : ~test[j]]
  ELSE NULL

----------------------------------------------------------------------------
(* chartData, lines 49-99 *)

\* The reduce step with "=" in place of "+=".
reduceStepOverwrite(acc, t) ==
  IF \E i \in DOMAIN acc : acc[i].customer_id = t.customer_id
  THEN LET k == CHOOSE i \in DOMAIN acc : acc[i].customer_id = t.customer_id
       IN [acc EXCEPT ![k].amount = t.amount]
  ELSE Append(acc, [customer_id |-> t.customer_id, amount |-> t.amount])

\* One step of the reduce of lines 52-60.
reduceStep(acc, t) ==
  IF \E i \in DOMAIN acc : acc[i].customer_id = t.customer_id
  THEN LET k == CHOOSE i \in DOMAIN acc :
                  /\ acc[i].customer_id = t.customer_id
                  /\ \A j \in 1..(i - 1) : acc[j].customer_id # t.customer_id
       IN [acc EXCEPT ![k].amount = @ + t.amount]
  ELSE Append(acc, [customer_id |-> t.customer_id, amount |-> t.amount])

\* transactions.reduce(..., []), lines 52-60
RECURSIVE reduceFrom(_, _, _)
reduceFrom(T, i, acc) ==
  IF i > Len(T) THEN acc ELSE reduceFrom(T, i + 1, reduceStep(acc, T[i]))

allCustomerTransactions(T) == reduceFrom(T, 1, <<>>)

\* customers.reduce(..., {}), lines 62-65: the object id -> name (last write wins).
customerNames(C) ==
  [k \in {C[i].id : i \in DOMAIN C} |->
     C[CHOOSE i \in DOMAIN C :
         C[i].id = k /\ \A j \in (i + 1)..Len(C) : C[j].id # k].name]

\* Object.keys of an object with integer keys: ascending numeric order.
RECURSIVE Ascending(_)
Ascending(S) ==
  IF S = {} THEN <<>>
  ELSE LET m == CHOOSE x \in S : \A y \in S : x <= y
       IN <<m>> \o Ascending(S \ {m})

ObjectKeys(obj) == Ascending(DOMAIN obj)

\* [...new Set(s)]: the distinct elements of s in first-occurrence order.
RECURSIVE SetOrder(_, _, _)
SetOrder(s, i, acc) ==
  IF i > Len(s) THEN acc
  ELSE SetOrder(s, i + 1,
                IF \E j \in DOMAIN acc : acc[j] = s[i] THEN acc ELSE Append(acc, s[i]))

\* reduce((sum, t) => sum + t.amount, 0), line 85
RECURSIVE sumAmounts(_, _)
sumAmounts(s, i) == IF i > Len(s) THEN 0 ELSE s[i].amount + sumAmounts(s, i + 1)

\* The per-day total taken from the first transaction of the day only.
dayTotalFirstOnly(cT, date) ==
  filter(cT, [i \in DOMAIN cT |-> cT[i].date = date])[1].amount

\* One entry of dates.map(...), lines 84-86.
dayTotal(cT, date) ==
  sumAmounts(filter(cT, [i \in DOMAIN cT |-> cT[i].date = date]), 1)

chartData(C, T, sel) ==
  IF sel = NULL
  THEN LET acts   == allCustomerTransactions(T)
           names  == customerNames(C)
           keys   == ObjectKeys(names)
           labels == [i \in DOMAIN keys |-> names[keys[i]]]
           amounts == [i \in DOMAIN acts |-> acts[i].amount]
       IN [labels |-> labels, datasets |-> <<[data |-> amounts]>>]
  ELSE LET customerTransactions ==
             filter(T, [i \in DOMAIN T |-> T[i].customer_id = sel.id])
           dates  == SetOrder([i \in DOMAIN customerTransactions |->
                                 customerTransactions[i].date], 1, <<>>)
           amounts == [i \in DOMAIN dates |-> dayTotal(customerTransactions, dates[i])]
       IN [labels |-> dates, datasets |-> <<[data |-> amounts]>>]

----------------------------------------------------------------------------
(* The chart effect, lines 101-123 *)

\* new Chart(canvas, {data}): a live Chart object showing data.
NewChart(data) == [destroyed |-> FALSE, data |-> data]

\* The effect without the destroy() of lines 102-104.
chartEffectNoDestroy(ref, live, twice, data) ==
  IF Len(data.datasets) > 0
  THEN [ref |-> NewChart(data), live |-> live + 1, twice |-> twice]
  ELSE [ref |-> ref, live |-> live, twice |-> twice]

\* One run of the effect on the ref cell ref, with live Chart objects counted in
\* live; the canvas ref is set once the component is mounted.
chartEffect(ref, live, twice, data) ==
  LET destroys == ref # NULL
      twice1   == twice \/ (destroys /\ ref.destroyed)
      live1    == IF destroys /\ ~ref.destroyed THEN live - 1 ELSE live
      ref1     == IF destroys THEN [ref EXCEPT !.destroyed = TRUE] ELSE ref
  IN IF Len(data.datasets) > 0
     THEN [ref |-> NewChart(data), live |-> live1 + 1, twice |-> twice1]
     ELSE [ref |-> ref1, live |-> live1, twice |-> twice1]

\* The commit after a render: the effect runs when a dependency changed.
RunChartEffect(run, C, T, sel) ==
  IF run
  THEN LET r == chartEffect(chartInstanceRef, liveCharts, destroyedTwice,
                            chartData(C, T, sel))
       IN /\ chartInstanceRef' = r.ref
          /\ liveCharts' = r.live
          /\ destroyedTwice' = r.twice
  ELSE UNCHANGED <<chartInstanceRef, liveCharts, destroyedTwice>>

----------------------------------------------------------------------------
(* State machine *)

Event(op, arg) == [op |-> op, arg |-> arg]

\* useState / useRef initial values, lines 10-16, before the first commit.
InitSampleRow ==
  /\ phase = "unmounted"
  /\ customers = <<>>
  /\ transactions = <<>>
  /\ filteredTransactions =
       <<[id |-> 1, customer_id |-> 2, date |-> "2024-01-01", amount |-> 1]>>
  /\ selectedCustomer = NULL
  /\ filterAmount = <<>>
  /\ chartInstanceRef = NULL
  /\ liveCharts = 0
  /\ destroyedTwice = FALSE
  /\ lastEvent = Event("init", <<>>)

Init ==
  /\ phase = "unmounted"
  /\ customers = <<>>
  /\ transactions = <<>>
  /\ filteredTransactions = <<>>
  /\ selectedCustomer = NULL
  /\ filterAmount = <<>>
  /\ chartInstanceRef = NULL
  /\ liveCharts = 0
  /\ destroyedTwice = FALSE
  /\ lastEvent = Event("init", <<>>)

\* First commit: both effects run; getData() is started and awaits fetchData().
Mount ==
  /\ phase = "unmounted"
  /\ phase' = "pending"
  /\ RunChartEffect(TRUE, customers, transactions, selectedCustomer)
  /\ lastEvent' = Event("mount", <<>>)
  /\ UNCHANGED <<customers, transactions, filteredTransactions, selectedCustomer,
                 filterAmount>>

\* getData resumes after the await, lines 20-25; transactions is a new array, so
\* the chart effect runs.
getData(data) ==
  /\ phase = "pending"
  /\ IF data # NULL
     THEN /\ customers' = data.customers
          /\ transactions' = data.transactions
          /\ filteredTransactions' = data.transactions
          /\ phase' = "loaded"
          /\ RunChartEffect(TRUE, data.customers, data.transactions, selectedCustomer)
     ELSE /\ phase' = "failed"
          /\ UNCHANGED <<customers, transactions, filteredTransactions,
                         chartInstanceRef, liveCharts, destroyedTwice>>
  /\ lastEvent' = Event("load", <<>>)
  /\ UNCHANGED <<selectedCustomer, filterAmount>>

\* The option values of the two selects, lines 136-139 and 152-155.
OptionValues == {<<>>} \cup {ToString(customers[i].id) : i \in DOMAIN customers}

\* The handler with the "All" branch leaving the list as it is.
handleFilterCustomerIDStaleAll(customerId) ==
  /\ phase # "unmounted"
  /\ customerId \in OptionValues
  /\ IF customerId = <<>>
     THEN /\ selectedCustomer' = NULL
          /\ filteredTransactions' = filteredTransactions
     ELSE LET ofId == [i \in DOMAIN transactions |->
                         StrictEq(transactions[i].customer_id, parseInt(customerId))]
              hasId == [i \in DOMAIN customers |->
                         StrictEq(customers[i].id, parseInt(customerId))]
          IN /\ filteredTransactions' = filter(transactions, ofId)
             /\ selectedCustomer' = find(customers, hasId)
  /\ RunChartEffect(selectedCustomer' # selectedCustomer,
                    customers, transactions, selectedCustomer')
  /\ lastEvent' = Event("customer", customerId)
  /\ UNCHANGED <<phase, customers, transactions, filterAmount>>

\* handleFilterCustomerID, lines 30-41, and the commit that follows.
handleFilterCustomerID(customerId) ==
  /\ phase # "unmounted"
  /\ customerId \in OptionValues
  /\ IF customerId = <<>>
     THEN /\ selectedCustomer' = NULL
          /\ filteredTransactions' = transactions
     ELSE LET ofId == [i \in DOMAIN transactions |->
                         StrictEq(transactions[i].customer_id, parseInt(customerId))]
              hasId == [i \in DOMAIN customers |->
                         StrictEq(customers[i].id, parseInt(customerId))]
          IN /\ filteredTransactions' = filter(transactions, ofId)
             /\ selectedCustomer' = find(customers, hasId)
  /\ RunChartEffect(selectedCustomer' # selectedCustomer,
                    customers, transactions, selectedCustomer')
  /\ lastEvent' = Event("customer", customerId)
  /\ UNCHANGED <<phase, customers, transactions, filterAmount>>

\* handleFilterAmount, lines 43-47; no dependency of the chart effect changes.
handleFilterAmount(amount) ==
  /\ phase # "unmounted"
  /\ amount \in AmountInputs
  /\ LET atLeast == [i \in DOMAIN transactions |->
                       GreaterEq(transactions[i].amount, parseInt(amount))]
     IN filteredTransactions' = filter(transactions, atLeast)
  /\ filterAmount' = amount
  /\ lastEvent' = Event("amount", amount)
  /\ UNCHANGED <<phase, customers, transactions, selectedCustomer,
                 chartInstanceRef, liveCharts, destroyedTwice>>

Next ==
  \/ Mount
  \/ phase = "pending" /\ \E data \in FetchResults : getData(data)
  \/ \E customerId \in OptionValues : handleFilterCustomerID(customerId)
  \/ \E amount \in AmountInputs : handleFilterAmount(amount)

Spec == Init /\ [][Next]_vars

----------------------------------------------------------------------------
(* Vocabulary of the properties *)

\* The series the live Chart object shows.
Labels == chartInstanceRef.data.labels
Points == chartInstanceRef.data.datasets[1].data

\* The subsequence of T at the positions I, in T's order.
SubseqAt(T, I) ==
  [k \in 1..Cardinality(I) |->
     T[CHOOSE i \in I : Cardinality({j \in I : j < i}) = k - 1]]

\* The sum of amount over the positions I of T.
RECURSIVE SumOver(_, _)
SumOver(T, I) ==
  IF I = {} THEN 0
  ELSE LET i == CHOOSE x \in I : TRUE IN T[i].amount + SumOver(T, I \ {i})

\* The sum of a sequence of numbers.
RECURSIVE SumSeq(_)
SumSeq(s) == IF s = <<>> THEN 0 ELSE s[1] + SumSeq(Tail(s))

\* A non-negative decimal numeral ("12", "1.5") and its value Numer / Denom.
DotsOf(s) == {i \in DOMAIN s : s[i] = "."}
IsNumeric(s) ==
  /\ \A i \in DOMAIN s : IsDigit(s[i]) \/ s[i] = "."
  /\ Cardinality(DotsOf(s)) <= 1
  /\ \E i \in DOMAIN s : IsDigit(s[i])
RECURSIVE Pow10(_)
Pow10(n) == IF n = 0 THEN 1 ELSE 10 * Pow10(n - 1)
Numer(s) ==
  ParseDigits(SubseqAt(s, {i \in DOMAIN s : IsDigit(s[i])}), 1, 0)
Denom(s) ==
  IF DotsOf(s) = {} THEN 1 ELSE Pow10(Len(s) - (CHOOSE i \in DotsOf(s) : TRUE))

CustomerPositions(c) == {j \in DOMAIN transactions : transactions[j].customer_id = c}

----------------------------------------------------------------------------
(* Properties *)

\* C1: after SelectCustomer(c), for c an id offered by the selector, the filtered
\* list is exactly the transactions of customer c in their original order; after
\* the "All" option selectedCustomer is null and the filtered list is the whole
\* loaded list.
C1_SelectCustomerFilters ==
  lastEvent.op = "customer" =>
    IF lastEvent.arg = <<>>
    THEN selectedCustomer = NULL /\ filteredTransactions = transactions
    ELSE /\ \E i \in DOMAIN customers : lastEvent.arg = ToString(customers[i].id)
         /\ \A i \in DOMAIN customers :
              lastEvent.arg = ToString(customers[i].id) =>
                filteredTransactions =
                  SubseqAt(transactions, CustomerPositions(customers[i].id))

C1_Witness ==
  /\ lastEvent = Event("customer", <<"1", "0">>)
  /\ Len(transactions) = 2
  /\ Len(filteredTransactions) = 1

\* C2: after SetMinAmount(m), for every numeric threshold m, the filtered list is
\* exactly the loaded transactions with amount >= m, in their original order.
C2_AmountFilterExact ==
  (lastEvent.op = "amount" /\ IsNumeric(lastEvent.arg)) =>
    filteredTransactions =
      SubseqAt(transactions,
               {j \in DOMAIN transactions :
                  transactions[j].amount * Denom(lastEvent.arg) >= Numer(lastEvent.arg)})

\* C3: after the amount input is cleared to the empty value, the filtered list is
\* the whole loaded list.
C3_ClearedAmountShowsAll ==
  lastEvent = Event("amount", <<>>) => filteredTransactions = transactions

\* C4: with no customer selected, every label is a customer name and the point
\* at the same index is the total amount of that customer's transactions.
C4_LabelsPairedWithTotals ==
  (chartInstanceRef # NULL /\ selectedCustomer = NULL) =>
    \A i \in DOMAIN Labels :
      \E k \in DOMAIN customers :
        /\ customers[k].name = Labels[i]
        /\ i \in DOMAIN Points
        /\ Points[i] = SumOver(transactions, CustomerPositions(customers[k].id))

\* C5: in every state the chart series has as many points as labels.
C5_PointsMatchLabels ==
  chartInstanceRef # NULL => Len(Points) = Len(Labels)

\* C6: with no customer selected, the points of the chart series add up to the
\* total amount of all loaded transactions.
C6_TotalsConserved ==
  (chartInstanceRef # NULL /\ selectedCustomer = NULL) =>
    SumSeq(Points) = SumOver(transactions, DOMAIN transactions)

C6_Witness ==
  /\ phase = "loaded"
  /\ selectedCustomer = NULL
  /\ customers = <<[id |-> 2, name |-> "A"]>>
  /\ Len(transactions) = 2
  /\ \A j \in DOMAIN transactions : transactions[j].customer_id = 10
  /\ Points = <<transactions[1].amount + transactions[2].amount>>

\* C7: with customer c selected, the labels are the distinct dates of c's
\* transactions in first-occurrence order, each point is the total of c's
\* transactions on its label's date, the points add up to c's total, and a
\* customer without transactions gives an empty series.
C7_PerDaySeries ==
  (chartInstanceRef # NULL /\ selectedCustomer # NULL) =>
    LET I == CustomerPositions(selectedCustomer.id)
        First(d) == CHOOSE j \in I :
                      transactions[j].date = d /\
                      \A k \in I : transactions[k].date = d => j <= k
    IN /\ \A i, j \in DOMAIN Labels : i # j => Labels[i] # Labels[j]
       /\ {Labels[i] : i \in DOMAIN Labels} = {transactions[j].date : j \in I}
       /\ \A i, j \in DOMAIN Labels : i < j => First(Labels[i]) < First(Labels[j])
       /\ DOMAIN Points = DOMAIN Labels
       /\ \A i \in DOMAIN Labels :
            Points[i] = SumOver(transactions,
                                {j \in I : transactions[j].date = Labels[i]})
       /\ SumSeq(Points) = SumOver(transactions, I)
       /\ I = {} => (Labels = <<>> /\ Points = <<>>)

C7_Witness ==
  /\ selectedCustomer = [id |-> 10, name |-> "B"]
  /\ chartInstanceRef # NULL
  /\ Labels = <<"2024-01-02", "2024-01-01">>
  /\ Points = <<2, 1>>

\* C8: at most one Chart object is live, it is the one the ref holds, and no
\* Chart object is destroyed twice.
C8_OneLiveChart ==
  /\ liveCharts <= 1
  /\ ~destroyedTwice
  /\ liveCharts = IF chartInstanceRef # NULL /\ ~chartInstanceRef.destroyed
                  THEN 1 ELSE 0

C8_Witness ==
  /\ phase = "loaded"
  /\ lastEvent.op = "customer"
  /\ selectedCustomer # NULL
  /\ liveCharts = 1
  /\ Labels # <<>>

\* C9: while the fetch is pending and after it returned null, the customers, the
\* transactions, the filtered list and the chart series are all empty, whatever
\* filter actions were performed.
C9_EmptyWithoutData ==
  phase \in {"pending", "failed"} =>
    /\ customers = <<>>
    /\ transactions = <<>>
    /\ filteredTransactions = <<>>
    /\ chartInstanceRef # NULL
    /\ Labels = <<>>
    /\ Points = <<>>

C9_Witness ==
  /\ phase = "failed"
  /\ lastEvent = Event("customer", <<>>)
  /\ filterAmount = <<"2">>

\* C10: once Load completes after SetMinAmount(m) was performed while the fetch
\* was pending, the filtered list contains only transactions with amount >= m.
C10_LoadAppliesAmountFilter ==
  (phase = "loaded" /\ lastEvent.op = "load" /\ IsNumeric(filterAmount)) =>
    \A i \in DOMAIN filteredTransactions :
      filteredTransactions[i].amount * Denom(filterAmount) >= Numer(filterAmount)

====
